---- MODULE Spec2Model ----
(***************************************************************************)
(* A model of insightlog/insight_logger.py: the InsightLogger class, the   *)
(* start_logging helper and the wrapper built by log_function_time, with   *)
(* the calling threads and the spinner threads interleaved at the          *)
(* granularity of the interpreter's atomic steps (one subscript read, one  *)
(* subscript store, one list append, one attribute store).                 *)
(***************************************************************************)
EXTENDS Integers, Sequences, FiniteSets, TLC

\* ------------------------------------------------------------------ bounds

\* Operations (method calls, constructions) started in one behaviour.
MaxOps == 3
\* Ticks of the wall clock (time.time()) in one behaviour.
MaxClock == 1

\* ------------------------------------------------------------- the inputs

Threads == {"t1", "t2"}
SeqThreads == {"t1"}
Insts == {"A", "B"}
LoggerNames == {"TestLogger", "InsightLog"}

\* The ten labels log_types dispatches on (lines 117-136).
KnownLevels ==
    {"INFO", "ERROR", "SUCCESS", "FAILURE", "WARNING", "DEBUG", "ALERT", "TRACE",
     "HIGHLIGHT", "CRITICAL"}
\* The labels the callers pass: known ones and an unknown one.
InputLevels == {"INFO", "ERROR", "INVALID_LEVEL"}
\* The labels the concurrent callers pass.
SharedLevels == {"INFO", "INVALID_LEVEL"}

\* The functions the callers wrap with log_function_time, and the name
\* (func.__name__) of each: two of them are both called test_function.
Funcs == {"test_function_all", "test_function_basic", "error_function",
          "calculate_fibonacci"}
\* (a variant that keys by the function itself)
FuncIdentity(f) == f

FuncName(f) ==
    IF f \in {"test_function_all", "test_function_basic"} THEN "test_function" ELSE f
FuncNames == {FuncName(f) : f \in Funcs}
\* The calls the callers make through a wrapper: the function and its arguments.
InputCalls ==
    {<<"test_function_all", <<>>>>, <<"test_function_basic", <<>>>>,
     <<"error_function", <<>>>>, <<"calculate_fibonacci", <<"0">>>>,
     <<"calculate_fibonacci", <<"1">>>>, <<"calculate_fibonacci", <<>>>>}
\* The calls the concurrent callers make.
SharedCalls ==
    {<<"test_function_all", <<>>>>, <<"error_function", <<>>>>,
     <<"calculate_fibonacci", <<"1">>>>}

\* The keyword parameters of InsightLogger.__init__ (line 56).
InitParams ==
    {"name", "save_log", "log_dir", "log_filename", "max_bytes", "backup_count",
     "log_level"}
\* Keyword sets the callers pass besides name: none, a recognised one, and the
\* options the tests and demos pass.
InputKwargs ==
    {{}, {"log_level"}, {"enable_database", "enable_monitoring"},
     {"enable_database", "enable_monitoring", "enable_alerts"}}

\* The attributes the class statement defines (lines 55-205).
ClassAttrs ==
    {"__init__", "log_function_time", "format_message", "log_types",
     "draw_and_save_graph", "generate_log_summary", "view_insights"}
\* The attributes __init__ sets on the instance (lines 57-62).
InitAttrs ==
    {"logger", "insight_dir", "error_count", "execution_times",
     "function_error_count", "start_time"}

\* ------------------------------------------------------------ dictionaries
\* A dict is a sequence of [k, v] records in insertion order, keys distinct.

Keys(d) == [j \in 1..Len(d) |-> d[j].k]
Values(d) == [j \in 1..Len(d) |-> d[j].v]
Has(d, key) == \E j \in 1..Len(d) : d[j].k = key
Idx(d, key) == CHOOSE j \in 1..Len(d) : d[j].k = key
Get(d, key) == d[Idx(d, key)].v
Put(d, key, val) ==
    IF Has(d, key) THEN [d EXCEPT ![Idx(d, key)] = [k |-> key, v |-> val]]
    ELSE Append(d, [k |-> key, v |-> val])
\* defaultdict.__getitem__: a missing key is inserted with the factory's value
\* before the value is returned (collections.defaultdict, lines 59-61).
DefaultValue(d, key, dflt) == IF Has(d, key) THEN Get(d, key) ELSE dflt
DefaultTouch(d, key, dflt) == IF Has(d, key) THEN d ELSE Append(d, [k |-> key, v |-> dflt])
\* Reading a plain count: 0 for a key that is absent.
Count(d, key) == IF Has(d, key) THEN Get(d, key) ELSE 0

RECURSIVE SumSeq(_)
SumSeq(s) == IF s = <<>> THEN 0 ELSE Head(s) + SumSeq(Tail(s))

\* --------------------------------------------------------------- the state

VARIABLES
    ctorRes,        \* per instance slot: "none", "ok" or the exception of the last attempt
    ctorKw,         \* per instance slot: the keyword names of the last attempt
    loggerName,     \* per instance: the name self.logger was fetched under
    handlers,       \* per logger name: the handlers of logging.getLogger(name), in order
    rootHandlers,   \* whether the root logger holds a handler
    attrs,          \* per instance: the instance attributes that exist
    error_count,    \* per instance: self.error_count
    execution_times,        \* per instance: self.execution_times
    function_error_count,   \* per instance: self.function_error_count
    start_time,     \* per instance: self.start_time
    stop_spin,      \* per instance: self._stop_spin (read only while the attribute exists)
    emitted,        \* per instance: records handed to self.logger, by origin
    now,            \* the wall clock
    pc,             \* per thread: where the thread is
    self,           \* per thread: the instance of the call in progress
    loc,            \* per thread: the locals of the call in progress
    spinner,        \* per thread: the spin thread of the call in progress or last made
    orphans,        \* per instance: spin threads of finished calls still looping
    result,         \* per thread: the outcome of the last call that ended
    ltCalls,        \* per instance and label: log_types calls made (history)
    wReturned,      \* per instance and function: wrapped calls that returned (history)
    wRaised,        \* per instance and name: wrapped calls that raised (history)
    ops             \* operations started (history)

vars ==
    <<ctorRes, ctorKw, loggerName, handlers, rootHandlers, attrs, error_count,
      execution_times, function_error_count, start_time, stop_spin, emitted, now,
      pc, self, loc, spinner, orphans, result, ltCalls, wReturned, wRaised, ops>>

instVars ==
    <<ctorRes, ctorKw, loggerName, handlers, rootHandlers, attrs, start_time>>
storeVars == <<error_count, execution_times, function_error_count>>
histVars == <<ltCalls, wReturned, wRaised>>

NoLoc == [op |-> "none"]
NoResult == [op |-> "none", kind |-> "none"]
Returned(op, val) == [op |-> op, kind |-> "returned", val |-> val]
Raised(op, exc) == [op |-> op, kind |-> "raised", exc |-> exc]

\* Before any logger is constructed.
Unconstructed ==
    /\ ctorRes = [i \in Insts |-> "none"]
    /\ ctorKw = [i \in Insts |-> {}]
    /\ loggerName = [i \in Insts |-> "none"]
    /\ handlers = [n \in LoggerNames |-> <<>>]
    /\ rootHandlers \in BOOLEAN
    /\ attrs = [i \in Insts |-> {}]
    /\ error_count = [i \in Insts |-> <<>>]
    /\ execution_times = [i \in Insts |-> <<>>]
    /\ function_error_count = [i \in Insts |-> <<>>]
    /\ start_time = [i \in Insts |-> 0]
    /\ stop_spin = [i \in Insts |-> FALSE]
    /\ emitted = [i \in Insts |-> [log_types |-> 0, other |-> 0]]
    /\ now = 0
    /\ pc = [t \in Threads |-> "idle"]
    /\ self = [t \in Threads |-> "A"]
    /\ loc = [t \in Threads |-> NoLoc]
    /\ spinner = [t \in Threads |-> "none"]
    /\ orphans = [i \in Insts |-> 0]
    /\ result = [t \in Threads |-> NoResult]
    /\ ltCalls = [i \in Insts |-> [l \in InputLevels |-> 0]]
    /\ wReturned = [i \in Insts |-> [f \in Funcs |-> 0]]
    /\ wRaised = [i \in Insts |-> [n \in FuncNames |-> 0]]
    /\ ops = 0

\* ------------------------------------------------------------ construction

\* (a variant of start_logging without the test of line 32)
HasHandlersUnchecked(name) == FALSE

\* logging.Logger.hasHandlers: the logger or an ancestor holds a handler.
HasHandlers(name) == handlers[name] # <<>> \/ rootHandlers

\* start_logging (lines 30-52): handlers are added only to a logger that has none.
StartLoggingHandlers(name, save_log) ==
    IF HasHandlers(name) THEN handlers[name]
    ELSE IF save_log = "enabled" THEN handlers[name] \o <<"file", "console">>
    ELSE handlers[name] \o <<"console">>

\* Binding the call InsightLogger(name=..., **kw) to __init__'s signature (line 56):
\* a keyword that names no parameter is a TypeError raised before the body runs.
BindInit(kw) == IF kw \subseteq InitParams THEN "ok" ELSE "TypeError"

\* InsightLogger(name, save_log=..., **kw) for the instance slot i.
Construct(i, name, save_log, kw) ==
    /\ ctorRes[i] = "none"
    /\ ctorKw' = [ctorKw EXCEPT ![i] = kw]
    /\ ctorRes' = [ctorRes EXCEPT ![i] = BindInit(kw)]
    /\ IF BindInit(kw) = "ok"
       THEN /\ handlers' = [handlers EXCEPT ![name] = StartLoggingHandlers(name, save_log)]
            /\ loggerName' = [loggerName EXCEPT ![i] = name]
            /\ attrs' = [attrs EXCEPT ![i] = InitAttrs]
            /\ error_count' = [error_count EXCEPT ![i] = <<>>]
            /\ execution_times' = [execution_times EXCEPT ![i] = <<>>]
            /\ function_error_count' = [function_error_count EXCEPT ![i] = <<>>]
            /\ start_time' = [start_time EXCEPT ![i] = now]
       ELSE UNCHANGED <<handlers, loggerName, attrs, storeVars, start_time>>
    /\ UNCHANGED <<rootHandlers, stop_spin, emitted, now, pc, self, loc, spinner,
                   orphans, result, histVars, ops>>

Live(i) == ctorRes[i] = "ok"

\* Attribute lookup on an instance: the instance's own attributes, then the class's.
HasAttr(i, name) == name \in attrs[i] \/ name \in ClassAttrs

\* (a variant with the dictionaries made once, in the class statement)
SharesStoresClassWide(i) == Insts

\* The instances whose self.error_count, self.execution_times and
\* self.function_error_count are the objects instance i's are: lines 59-61 run
\* in __init__ and make new dictionaries for every instance.
SharesStores(i) == {i}

\* ---------------------------------------------------------------- log_types
\* log_types(level, text), lines 115-136.  Line 116, self.error_count[level] += 1,
\* is three steps of the interpreter: the subscript read (which, on a
\* defaultdict, inserts a missing key with 0), the addition on the value read,
\* and the subscript store.

Idle(t) == pc[t] = "idle"
CanStart(t, i) == Idle(t) /\ Live(i) /\ ops < MaxOps

\* line 116, the read of self.error_count[level]
LogTypesLoad(t, i, level) ==
    /\ CanStart(t, i)
    /\ HasAttr(i, "log_types")
    /\ ops' = ops + 1
    /\ self' = [self EXCEPT ![t] = i]
    /\ loc' = [loc EXCEPT ![t] =
                 [op |-> "log_types", level |-> level,
                  tmp |-> DefaultValue(error_count[i], level, 0)]]
    /\ error_count' = [j \in Insts |->
                         IF j \in SharesStores(i)
                         THEN DefaultTouch(error_count[j], level, 0)
                         ELSE error_count[j]]
    /\ ltCalls' = [ltCalls EXCEPT ![i][level] = @ + 1]
    /\ pc' = [pc EXCEPT ![t] = "lt_store"]
    /\ UNCHANGED <<instVars, execution_times, function_error_count, stop_spin, emitted,
                   now, spinner, orphans, result, wReturned, wRaised>>

\* (a variant with an else branch that logs an unknown label as it is)
RecordsForAny(level) == 1

\* The records lines 117-136 hand to self.logger: one for a known label; the
\* if/elif chain has no else branch.
RecordsFor(level) == IF level \in KnownLevels THEN 1 ELSE 0

\* (a variant that counts the known labels only)
NextCountKnownOnly(level, tmp) == IF level \in KnownLevels THEN tmp + 1 ELSE tmp

\* line 116: the value stored is the value read plus one, whatever the label.
NextCount(level, tmp) == tmp + 1

\* (a variant with an else branch that rejects an unknown label)
LogTypesOutcomeStrict(level) ==
    IF level \in KnownLevels THEN [kind |-> "returned", val |-> "None"]
    ELSE [kind |-> "raised", val |-> "ValueError"]

\* How log_types ends, by label: no branch of lines 117-136 raises, and an
\* unknown label matches none of them, so the method falls off its end.
LogTypesOutcome(level) == [kind |-> "returned", val |-> "None"]

\* line 116, the store of the value read plus one, and lines 117-136, which
\* touch nothing the other threads write; the method then returns None.
LogTypesStore(t) ==
    /\ pc[t] = "lt_store"
    /\ error_count' = [j \in Insts |->
                         IF j \in SharesStores(self[t])
                         THEN Put(error_count[j], loc[t].level,
                                  NextCount(loc[t].level, loc[t].tmp))
                         ELSE error_count[j]]
    /\ emitted' = [emitted EXCEPT ![self[t]].log_types = @ + RecordsFor(loc[t].level)]
    /\ result' = [result EXCEPT ![t] =
                    [op |-> "log_types", level |-> loc[t].level,
                     kind |-> LogTypesOutcome(loc[t].level).kind,
                     val |-> LogTypesOutcome(loc[t].level).val]]
    /\ loc' = [loc EXCEPT ![t] = NoLoc]
    /\ pc' = [pc EXCEPT ![t] = "idle"]
    /\ UNCHANGED <<instVars, execution_times, function_error_count, stop_spin, now,
                   self, spinner, orphans, histVars, ops>>

\* ------------------------------------------------------------------- the clock

Tick ==
    /\ now < MaxClock
    /\ now' = now + 1
    /\ UNCHANGED <<instVars, storeVars, stop_spin, emitted, pc, self, loc, spinner,
                   orphans, result, histVars, ops>>

\* ------------------------------------------------- the wrapped functions
\* What the body of a wrapped function does with its arguments: it returns a
\* value or raises.  Values are written as their text; calculate_fibonacci is
\* called with n <= 1, where it returns n without calling itself.  A call whose arguments do not fit the function's
\* parameters raises TypeError from the call expression of line 80.

BodyReturn(val) == [kind |-> "returned", val |-> val]
BodyRaise(exc) == [kind |-> "raised", exc |-> exc]

Body(f, args) ==
    CASE f = "test_function_all" ->
           IF args = <<>> THEN BodyReturn("test result") ELSE BodyRaise("TypeError")
      [] f = "test_function_basic" ->
           IF args = <<>> THEN BodyReturn("Function test completed")
           ELSE BodyRaise("TypeError")
      [] f = "error_function" ->
           IF args = <<>> THEN BodyRaise("ValueError") ELSE BodyRaise("TypeError")
      [] f = "calculate_fibonacci" ->
           IF Len(args) = 1 THEN BodyReturn(args[1]) ELSE BodyRaise("TypeError")

\* ------------------------------------------------------- log_function_time
\* The wrapper of lines 65-88, one call of it per thread at a time.

\* (time.time() - start_time) * 1000, lines 73 and 83
ElapsedMs(start) == (now - start) * 1000

\* lines 66-78: the locals, self._stop_spin = False, and the spin thread started.
\* A spin thread this thread started for an earlier call and that still loops
\* goes on looping beside the new one.
WrapperBegin(t, i, f, args) ==
    /\ CanStart(t, i)
    /\ HasAttr(i, "log_function_time")
    /\ ops' = ops + 1
    /\ self' = [self EXCEPT ![t] = i]
    /\ loc' = [loc EXCEPT ![t] =
                 [op |-> "wrapped", func |-> f, args |-> args, start |-> now,
                  elapsed |-> 0, logged |-> 0, ret |-> "unset"]]
    /\ stop_spin' = [stop_spin EXCEPT ![i] = FALSE]
    /\ attrs' = [attrs EXCEPT ![i] = @ \cup {"_stop_spin"}]
    /\ orphans' = IF spinner[t] \in {"check", "write"}
                  THEN [orphans EXCEPT ![self[t]] = @ + 1] ELSE orphans
    /\ spinner' = [spinner EXCEPT ![t] = "check"]
    /\ pc' = [pc EXCEPT ![t] = "w_body"]
    /\ UNCHANGED <<ctorRes, ctorKw, loggerName, handlers, rootHandlers, start_time,
                   storeVars, emitted, now, result, histVars>>

\* line 80, result = func(*args, **kwargs), as the body ends.  An exception
\* of the body leaves the wrapper at once: lines 82-88 do not run.  When the
\* body returns, line 82 runs: self._stop_spin = True.
WrapperBody(t) ==
    /\ pc[t] = "w_body"
    /\ LET out == Body(loc[t].func, loc[t].args) IN
       IF out.kind = "raised"
       THEN /\ result' = [result EXCEPT ![t] =
                            [op |-> "wrapped", kind |-> "raised", exc |-> out.exc,
                             func |-> loc[t].func, args |-> loc[t].args]]
            /\ wRaised' = [wRaised EXCEPT ![self[t]][FuncName(loc[t].func)] = @ + 1]
            /\ loc' = [loc EXCEPT ![t] = NoLoc]
            /\ pc' = [pc EXCEPT ![t] = "idle"]
            /\ UNCHANGED stop_spin
       ELSE /\ loc' = [loc EXCEPT ![t].ret = out.val]
            /\ stop_spin' = [stop_spin EXCEPT ![self[t]] = TRUE]
            /\ pc' = [pc EXCEPT ![t] = "w_time"]
            /\ UNCHANGED <<result, wRaised>>
    /\ UNCHANGED <<instVars, storeVars, emitted, now, self, spinner, orphans,
                   ltCalls, wReturned, ops>>

\* line 83: elapsed_time_ms = (time.time() - start_time) * 1000
WrapperTime(t) ==
    /\ pc[t] = "w_time"
    /\ loc' = [loc EXCEPT ![t].elapsed = ElapsedMs(loc[t].start)]
    /\ pc' = [pc EXCEPT ![t] = "w_log"]
    /\ UNCHANGED <<instVars, storeVars, stop_spin, emitted, now, self, spinner,
                   orphans, result, histVars, ops>>

\* (a variant that logs the timing through self.log_types("INFO", ...))
TimingLogCounted(d) == Put(d, "INFO", Count(d, "INFO") + 1)

\* error_count after the timing was logged, line 85: the record goes to
\* self.logger.info, not through log_types, so no counter moves.
TimingLog(d) == d

\* lines 84-85: the line printed and the record handed to self.logger.info, both
\* formatted from elapsed_time_ms as it is then; and the subscript of line 87,
\* self.execution_times[func.__name__]: a missing name gets a new empty list.
WrapperLog(t) ==
    /\ pc[t] = "w_log"
    /\ loc' = [loc EXCEPT ![t].logged = loc[t].elapsed]
    /\ emitted' = [emitted EXCEPT ![self[t]].other = @ + 1]
    /\ error_count' = [error_count EXCEPT ![self[t]] = TimingLog(@)]
    /\ execution_times' = [j \in Insts |->
                             IF j \in SharesStores(self[t])
                             THEN DefaultTouch(execution_times[j],
                                               FuncName(loc[t].func), <<>>)
                             ELSE execution_times[j]]
    /\ pc' = [pc EXCEPT ![t] = "w_append"]
    /\ UNCHANGED <<instVars, function_error_count, stop_spin, now, self,
                   spinner, orphans, result, histVars, ops>>

\* (a variant that assigns a new one-element list instead of appending)
Overwritten(d, name, x) == Put(d, name, <<x>>)

\* (a variant that inserts at the front of the list)
Prepended(d, name, x) == Put(d, name, <<x>> \o Get(d, name))

\* The list after .append(elapsed_time_ms) on the list object of that name.
Appended(d, name, x) == Put(d, name, Append(Get(d, name), x))

\* (a variant without the return statement)
WrapperResultNone(ret) == "None"

\* What the wrapper hands back to its caller, line 88: return result
WrapperResult(ret) == ret

\* Another thread is inside a wrapped call of a function of the same name on the
\* same logger (history, kept with the outcome of the call).
Overlapping(t) ==
    \E u \in Threads \ {t} :
        /\ loc[u].op = "wrapped"
        /\ self[u] = self[t]
        /\ FuncName(loc[u].func) = FuncName(loc[t].func)

\* lines 87-88: .append(elapsed_time_ms) on that list, then return result
WrapperAppend(t) ==
    /\ pc[t] = "w_append"
    /\ execution_times' = [j \in Insts |->
                             IF j \in SharesStores(self[t])
                             THEN Appended(execution_times[j],
                                           FuncName(loc[t].func), loc[t].elapsed)
                             ELSE execution_times[j]]
    /\ result' = [result EXCEPT ![t] =
                    [op |-> "wrapped", kind |-> "returned",
                     val |-> WrapperResult(loc[t].ret),
                     func |-> loc[t].func, args |-> loc[t].args,
                     logged |-> loc[t].logged, recorded |-> loc[t].elapsed,
                     overlapped |-> Overlapping(t)]]
    /\ wReturned' = [wReturned EXCEPT ![self[t]][loc[t].func] = @ + 1]
    /\ loc' = [loc EXCEPT ![t] = NoLoc]
    /\ pc' = [pc EXCEPT ![t] = "idle"]
    /\ UNCHANGED <<instVars, error_count, function_error_count, stop_spin, emitted,
                   now, self, spinner, orphans, ltCalls, wRaised, ops>>

\* ------------------------------------------------------------ the spin thread
\* spin(), lines 70-74, run by the daemon thread of lines 77-78.

\* line 72: while not self._stop_spin
SpinCheck(t) ==
    /\ spinner[t] = "check"
    /\ spinner' = [spinner EXCEPT ![t] = IF stop_spin[self[t]] THEN "done" ELSE "write"]
    /\ UNCHANGED <<instVars, storeVars, stop_spin, emitted, now, pc, self, loc,
                   orphans, result, histVars, ops>>

\* lines 73-74: the nonlocal elapsed_time_ms written and printed.  The variable
\* is the one of the call the thread was started for; once that call is over
\* no one reads it.
SpinWrite(t) ==
    /\ spinner[t] = "write"
    /\ spinner' = [spinner EXCEPT ![t] = "check"]
    /\ loc' = IF loc[t].op = "wrapped"
              THEN [loc EXCEPT ![t].elapsed = ElapsedMs(loc[t].start)] ELSE loc
    /\ UNCHANGED <<instVars, storeVars, stop_spin, emitted, now, pc, self, orphans,
                   result, histVars, ops>>

\* line 72, for a spin thread of an earlier call: it leaves its loop when it
\* reads the flag as True.
OrphanExit(i) ==
    /\ orphans[i] > 0
    /\ stop_spin[i]
    /\ orphans' = [orphans EXCEPT ![i] = @ - 1]
    /\ UNCHANGED <<instVars, storeVars, stop_spin, emitted, now, pc, self, loc,
                   spinner, result, histVars, ops>>

\* ------------------------------------------------------------- the reports
\* draw_and_save_graph (lines 138-154), generate_log_summary (lines 156-176)
\* and view_insights (lines 178-205), which calls the other two.  Each read of
\* a dictionary (list(d.keys()), list(d.values()), sum(d.values())) is one
\* step; what lies between two reads is local to the caller.

ReportOps == {"draw_and_save_graph", "generate_log_summary", "view_insights"}

\* ax.bar(log_levels, counts), line 143: matplotlib broadcasts the two lists
\* to one shape and raises ValueError when it cannot (lengths that differ and
\* are both other than 1).
Broadcasts(a, b) == a = b \/ a = 1 \/ b = 1

\* (a variant that reports through self.log_types("INFO", ...))
ReportLogCounted(d) == Put(d, "INFO", Count(d, "INFO") + 1)

\* error_count after a report announced a saved file, lines 154 and 204: the
\* record goes to self.logger.info, not through log_types, so no counter moves.
ReportLog(d) == d

\* (a variant that reports the time of the call)
TimestampOfCall(i) == now

\* "Timestamp Started", line 165: self.start_time, formatted.
TimestampStarted(i) == start_time[i]

\* (a variant that draws the timing chart whatever the dictionary holds)
ChartDrawnAlways(d) == TRUE

\* line 190, if self.execution_times: an empty dictionary is false.
ChartDrawn(d) == d # <<>>

\* line 139, as draw_and_save_graph starts, called by the user or, after the
\* two prints of lines 179-180, by view_insights (line 183).
DrawKeys(t, i, op) ==
    /\ CanStart(t, i)
    /\ HasAttr(i, op)
    /\ ops' = ops + 1
    /\ self' = [self EXCEPT ![t] = i]
    /\ loc' = [loc EXCEPT ![t] =
                 [op |-> op, labels |-> Keys(error_count[i]), counts |-> <<>>,
                  started |-> 0, total |-> 0,
                  fresh |-> error_count[i] = <<>> /\ execution_times[i] = <<>>]]
    /\ pc' = [pc EXCEPT ![t] = "d_values"]
    /\ UNCHANGED <<instVars, storeVars, stop_spin, emitted, now, spinner, orphans,
                   result, histVars>>

\* line 140, and lines 142-154 on the two lists: the chart drawn and saved and
\* the record handed to self.logger.info, or the ValueError of ax.bar, which
\* ends view_insights too.  In view_insights the summary's environment_info
\* follows (lines 157-168), which reads self.start_time.
DrawValues(t) ==
    /\ pc[t] = "d_values"
    /\ LET counts == Values(error_count[self[t]]) IN
       IF Broadcasts(Len(loc[t].labels), Len(counts))
       THEN /\ error_count' = [error_count EXCEPT ![self[t]] = ReportLog(@)]
            /\ emitted' = [emitted EXCEPT ![self[t]].other = @ + 1]
            /\ IF loc[t].op = "view_insights"
               THEN /\ loc' = [loc EXCEPT ![t].counts = counts,
                                           ![t].started = TimestampStarted(self[t])]
                    /\ pc' = [pc EXCEPT ![t] = "s_total"]
                    /\ UNCHANGED result
               ELSE /\ result' = [result EXCEPT ![t] =
                                    [op |-> loc[t].op, kind |-> "returned",
                                     labels |-> loc[t].labels, counts |-> counts,
                                     fresh |-> loc[t].fresh]]
                    /\ loc' = [loc EXCEPT ![t] = NoLoc]
                    /\ pc' = [pc EXCEPT ![t] = "idle"]
       ELSE /\ result' = [result EXCEPT ![t] =
                            [op |-> loc[t].op, kind |-> "raised",
                             exc |-> "ValueError",
                             labels |-> loc[t].labels, counts |-> counts,
                             fresh |-> loc[t].fresh]]
            /\ loc' = [loc EXCEPT ![t] = NoLoc]
            /\ pc' = [pc EXCEPT ![t] = "idle"]
            /\ UNCHANGED <<error_count, emitted>>
    /\ UNCHANGED <<instVars, execution_times, function_error_count, stop_spin, now,
                   self, spinner, orphans, histVars, ops>>

\* (a variant that totals the counters of the error labels only)
TotalOfErrorLevels(d) ==
    SumSeq([j \in 1..Len(d) |-> IF d[j].k \in {"ERROR", "FAILURE", "CRITICAL"} THEN d[j].v ELSE 0])

\* "Total Errors", line 172: sum(self.error_count.values()), over every label.
TotalErrors(d) == SumSeq(Values(d))

\* generate_log_summary() called by the user: lines 157-168, environment_info.
GenerateLogSummary(t, i) ==
    /\ CanStart(t, i)
    /\ HasAttr(i, "generate_log_summary")
    /\ ops' = ops + 1
    /\ self' = [self EXCEPT ![t] = i]
    /\ loc' = [loc EXCEPT ![t] =
                 [op |-> "generate_log_summary", labels |-> <<>>, counts |-> <<>>,
                  started |-> TimestampStarted(i), total |-> 0,
                  fresh |-> error_count[i] = <<>> /\ execution_times[i] = <<>>]]
    /\ pc' = [pc EXCEPT ![t] = "s_total"]
    /\ UNCHANGED <<instVars, storeVars, stop_spin, emitted, now, spinner, orphans,
                   result, histVars>>

\* lines 170-176: the footer ["Total Errors", sum(self.error_count.values())],
\* the table, and the return.
SummaryTotal(t) ==
    /\ pc[t] = "s_total"
    /\ LET total == TotalErrors(error_count[self[t]]) IN
       IF loc[t].op = "view_insights"
       THEN /\ loc' = [loc EXCEPT ![t].total = total]
            /\ pc' = [pc EXCEPT ![t] = "v_chart"]
            /\ UNCHANGED result
       ELSE /\ result' = [result EXCEPT ![t] =
                            [op |-> loc[t].op, kind |-> "returned",
                             total |-> total, started |-> loc[t].started,
                             fresh |-> loc[t].fresh]]
            /\ loc' = [loc EXCEPT ![t] = NoLoc]
            /\ pc' = [pc EXCEPT ![t] = "idle"]
    /\ UNCHANGED <<instVars, storeVars, stop_spin, emitted, now, self, spinner,
                   orphans, histVars, ops>>

\* lines 187-205 of view_insights: the summary printed, then, if any timing
\* is held, the chart of the mean time per name drawn and saved and the record
\* handed to self.logger.info.  Every name read at line 192 is a key already.
ViewChart(t) ==
    /\ pc[t] = "v_chart"
    /\ LET chart == ChartDrawn(execution_times[self[t]]) IN
       /\ error_count' = [error_count EXCEPT ![self[t]] =
                            IF chart THEN ReportLog(@) ELSE @]
       /\ emitted' = [emitted EXCEPT ![self[t]].other = @ + IF chart THEN 1 ELSE 0]
       /\ result' = [result EXCEPT ![t] =
                       [op |-> "view_insights", kind |-> "returned",
                        labels |-> loc[t].labels, counts |-> loc[t].counts,
                        total |-> loc[t].total, started |-> loc[t].started,
                        chart |-> chart,
                        names |-> Keys(execution_times[self[t]]),
                        fresh |-> loc[t].fresh]]
    /\ loc' = [loc EXCEPT ![t] = NoLoc]
    /\ pc' = [pc EXCEPT ![t] = "idle"]
    /\ UNCHANGED <<instVars, execution_times, function_error_count, stop_spin, now,
                   self, spinner, orphans, histVars, ops>>

\* ------------------------------------------- what the class does not define
\* The callers (the tests and the demos) also call stop_monitoring() on the
\* logger and use it in a with statement.  The class statement of lines 55-205
\* defines neither stop_monitoring nor __enter__/__exit__, and __init__ sets no
\* such attribute, so the lookup decides the outcome.

\* The attribute reference i.name: found, or AttributeError.
Lookup(i, name) == IF HasAttr(i, name) THEN "found" ELSE "AttributeError"

\* What a with statement raises for an object whose class lacks __enter__ or
\* __exit__: AttributeError up to Python 3.10, TypeError from 3.11 on.
ProtocolErrors == {"AttributeError", "TypeError"}

\* logger.stop_monitoring()
StopMonitoring(t, i) ==
    /\ CanStart(t, i)
    /\ ops' = ops + 1
    /\ self' = [self EXCEPT ![t] = i]
    /\ result' = [result EXCEPT ![t] =
                    IF Lookup(i, "stop_monitoring") = "found"
                    THEN Returned("stop_monitoring", "None")
                    ELSE Raised("stop_monitoring", Lookup(i, "stop_monitoring"))]
    /\ UNCHANGED <<instVars, storeVars, stop_spin, emitted, now, pc, loc, spinner,
                   orphans, histVars>>

\* with <logger> as logger: <block>, where the block ends normally ("none") or
\* raises blockExc.  The special methods are looked up on the class before the
\* block is entered.
WithStatement(t, i, blockExc) ==
    /\ CanStart(t, i)
    /\ ops' = ops + 1
    /\ self' = [self EXCEPT ![t] = i]
    /\ \E e \in ProtocolErrors :
         result' = [result EXCEPT ![t] =
           IF "__enter__" \in ClassAttrs /\ "__exit__" \in ClassAttrs
           THEN [op |-> "with", block |-> blockExc, entered |-> TRUE,
                 exited |-> TRUE,
                 kind |-> IF blockExc = "none" THEN "returned" ELSE "raised",
                 exc |-> blockExc]
           ELSE [op |-> "with", block |-> blockExc, entered |-> FALSE,
                 exited |-> FALSE, kind |-> "raised", exc |-> e]]
    /\ UNCHANGED <<instVars, storeVars, stop_spin, emitted, now, pc, loc, spinner,
                   orphans, histVars>>

\* logger._calculate_health_score(), as test_all_features.py line 127 and
\* test_basic.py line 87 call it.  The class defines no such method, so the
\* attribute reference raises before anything is computed.
CalculateHealthScore(t, i) ==
    /\ CanStart(t, i)
    /\ ops' = ops + 1
    /\ self' = [self EXCEPT ![t] = i]
    /\ result' = [result EXCEPT ![t] =
                    [op |-> "_calculate_health_score",
                     kind |-> IF Lookup(i, "_calculate_health_score") = "found"
                              THEN "returned" ELSE "raised",
                     exc |-> Lookup(i, "_calculate_health_score"),
                     fresh |-> /\ error_count[i] = <<>>
                               /\ execution_times[i] = <<>>
                               /\ function_error_count[i] = <<>>]]
    /\ UNCHANGED <<instVars, storeVars, stop_spin, emitted, now, pc, loc, spinner,
                   orphans, histVars>>

\* The values the callers pass to add_custom_metric: a number, or None
\* (test_all_features.py line 349).
MetricValues == {"42", "None"}

\* logger.add_custom_metric(name, value).  The class defines no such method and
\* __init__ makes no store of custom metrics, so the attribute reference raises
\* and nothing is stored.
AddCustomMetric(t, i, name, value) ==
    /\ CanStart(t, i)
    /\ ops' = ops + 1
    /\ self' = [self EXCEPT ![t] = i]
    /\ result' = [result EXCEPT ![t] =
                    [op |-> "add_custom_metric", name |-> name, value |-> value,
                     kind |-> IF Lookup(i, "add_custom_metric") = "found"
                              THEN "returned" ELSE "raised",
                     exc |-> Lookup(i, "add_custom_metric"),
                     stored |-> HasAttr(i, "custom_metrics")]]
    /\ UNCHANGED <<instVars, storeVars, stop_spin, emitted, now, pc, loc, spinner,
                   orphans, histVars>>

\* ---------------------------------------------------------------- main()
\* What the constructor call of line 210 can raise: the directory or the log
\* file cannot be made (os.makedirs of lines 26 and 37, RotatingFileHandler of
\* line 40).
CtorFailures == {"PermissionError", "OSError"}

\* Whether the local insight_logger is bound when the except branch runs: the
\* assignment of line 210 happens only once the constructor has returned.
MainLocalBound(ctor) == ctor = "ok"

\* main() when the constructor raises ctor: control goes to line 231, and
\* line 232 evaluates insight_logger.logger.error(...) to log the failure.
Main(t, ctor) ==
    /\ Idle(t)
    /\ ops < MaxOps
    /\ ops' = ops + 1
    /\ result' = [result EXCEPT ![t] =
                    [op |-> "main", ctor |-> ctor,
                     logged |-> MainLocalBound(ctor),
                     kind |-> IF MainLocalBound(ctor) THEN "returned" ELSE "raised",
                     exc |-> IF MainLocalBound(ctor) THEN "none"
                             ELSE "UnboundLocalError"]]
    /\ UNCHANGED <<instVars, storeVars, stop_spin, emitted, now, pc, self, loc,
                   spinner, orphans, histVars>>

\* ---------------------------------------------------------- specifications

\* The state main() reaches after line 210, InsightLogger(name="InsightLog"):
\* instance A constructed with the default options.
Init ==
    /\ ctorRes = [i \in Insts |-> IF i = "A" THEN BindInit({}) ELSE "none"]
    /\ ctorKw = [i \in Insts |-> {}]
    /\ loggerName = [i \in Insts |-> IF i = "A" THEN "InsightLog" ELSE "none"]
    /\ rootHandlers \in BOOLEAN
    /\ handlers = [n \in LoggerNames |->
                     IF n = "InsightLog" /\ ~rootHandlers
                     THEN <<"file", "console">> ELSE <<>>]
    /\ attrs = [i \in Insts |-> IF i = "A" THEN InitAttrs ELSE {}]
    /\ error_count = [i \in Insts |-> <<>>]
    /\ execution_times = [i \in Insts |-> <<>>]
    /\ function_error_count = [i \in Insts |-> <<>>]
    /\ start_time = [i \in Insts |-> 0]
    /\ stop_spin = [i \in Insts |-> FALSE]
    /\ emitted = [i \in Insts |-> [log_types |-> 0, other |-> 0]]
    /\ now = 0
    /\ pc = [t \in Threads |-> "idle"]
    /\ self = [t \in Threads |-> "A"]
    /\ loc = [t \in Threads |-> NoLoc]
    /\ spinner = [t \in Threads |-> "none"]
    /\ orphans = [i \in Insts |-> 0]
    /\ result = [t \in Threads |-> NoResult]
    /\ ltCalls = [i \in Insts |-> [l \in InputLevels |-> 0]]
    /\ wReturned = [i \in Insts |-> [f \in Funcs |-> 0]]
    /\ wRaised = [i \in Insts |-> [n \in FuncNames |-> 0]]
    /\ ops = 0

\* Threads call log_types and wrapped functions on the logger main() built,
\* concurrently.
CallStep(t) ==
    \/ \E level \in SharedLevels : LogTypesLoad(t, "A", level)
    \/ LogTypesStore(t)
    \/ \E c \in SharedCalls : WrapperBegin(t, "A", c[1], c[2])
    \/ WrapperBody(t)
    \/ WrapperTime(t)
    \/ WrapperLog(t)
    \/ WrapperAppend(t)
    \/ SpinCheck(t)
    \/ SpinWrite(t)

Next == OrphanExit("A") \/ \E t \in Threads : CallStep(t)
Spec == Init /\ [][Next]_vars

\* The same under fair scheduling: a thread inside a call goes on to its next
\* step (the bodies of the wrapped functions end), and a spin thread that can
\* run does run.  Whether and when a thread starts another call is up to the
\* program.
Continue(t) ==
    \/ LogTypesStore(t)
    \/ WrapperBody(t)
    \/ WrapperTime(t)
    \/ WrapperLog(t)
    \/ WrapperAppend(t)

FairSpec ==
    /\ Init
    /\ [][Next]_vars
    /\ \A t \in Threads : WF_vars(Continue(t)) /\ WF_vars(SpinCheck(t) \/ SpinWrite(t))
    /\ WF_vars(OrphanExit("A"))

\* One thread makes all the calls on that logger, with every input, while the
\* clock runs (the spin threads still run beside it).
SeqStep(t) ==
    \/ \E level \in InputLevels : LogTypesLoad(t, "A", level)
    \/ LogTypesStore(t)
    \/ \E c \in InputCalls : WrapperBegin(t, "A", c[1], c[2])
    \/ WrapperBody(t)
    \/ WrapperTime(t)
    \/ WrapperLog(t)
    \/ WrapperAppend(t)
    \/ SpinCheck(t)
    \/ SpinWrite(t)

SeqNext == OrphanExit("A") \/ Tick \/ \E t \in SeqThreads : SeqStep(t)
SeqSpec == Init /\ [][SeqNext]_vars

\* Threads read the reports of that logger while other threads call log_types.
ReportStep(t) ==
    \/ \E level \in SharedLevels : LogTypesLoad(t, "A", level)
    \/ LogTypesStore(t)
    \/ \E op \in {"draw_and_save_graph", "view_insights"} : DrawKeys(t, "A", op)
    \/ DrawValues(t)
    \/ GenerateLogSummary(t, "A")
    \/ SummaryTotal(t)
    \/ ViewChart(t)

ReportNext == \E t \in Threads : ReportStep(t)
ReportSpec == Init /\ [][ReportNext]_vars

\* The calls the one thread of a session makes through a wrapper.
SessionCalls ==
    {<<"test_function_all", <<>>>>, <<"error_function", <<>>>>}

\* A session as main() runs one (lines 208-229): one thread logs, calls wrapped
\* functions and reads the reports, in any order, while the clock runs.
SessionStep(t) ==
    \/ \E level \in SharedLevels : LogTypesLoad(t, "A", level)
    \/ LogTypesStore(t)
    \/ \E c \in SessionCalls : WrapperBegin(t, "A", c[1], c[2])
    \/ WrapperBody(t)
    \/ WrapperTime(t)
    \/ WrapperLog(t)
    \/ WrapperAppend(t)
    \/ SpinCheck(t)
    \/ SpinWrite(t)
    \/ \E op \in {"draw_and_save_graph", "view_insights"} : DrawKeys(t, "A", op)
    \/ DrawValues(t)
    \/ GenerateLogSummary(t, "A")
    \/ SummaryTotal(t)
    \/ ViewChart(t)

SessionNext == OrphanExit("A") \/ Tick \/ \E t \in SeqThreads : SessionStep(t)
SessionSpec == Init /\ [][SessionNext]_vars

\* Two loggers side by side: one thread constructs them with the default
\* options, under one name or two, then logs and calls wrapped functions on
\* either, while the clock runs.
PairStep(t) ==
    \/ \E i \in Insts, n \in LoggerNames : Construct(i, n, "enabled", {})
    \/ \E i \in Insts : LogTypesLoad(t, i, "INFO")
    \/ LogTypesStore(t)
    \/ \E i \in Insts : WrapperBegin(t, i, "test_function_all", <<>>)
    \/ WrapperBody(t)
    \/ WrapperTime(t)
    \/ WrapperLog(t)
    \/ WrapperAppend(t)
    \/ SpinCheck(t)
    \/ SpinWrite(t)

PairNext ==
    \/ \E i \in Insts : OrphanExit(i)
    \/ Tick
    \/ \E t \in SeqThreads : PairStep(t)
PairSpec == Unconstructed /\ [][PairNext]_vars

\* The life of the loggers: one thread constructs them, logs, calls
\* stop_monitoring(), _calculate_health_score() and add_custom_metric() and
\* uses them in with statements; and main() is run where a logger cannot be
\* constructed.
LifeStep(t) ==
    \/ \E i \in Insts, n \in LoggerNames, s \in {"enabled", "disabled"},
          kw \in InputKwargs : Construct(i, n, s, kw)
    \/ \E i \in Insts : LogTypesLoad(t, i, "INFO")
    \/ LogTypesStore(t)
    \/ \E i \in Insts : StopMonitoring(t, i)
    \/ \E i \in Insts, b \in {"none", "ValueError"} : WithStatement(t, i, b)
    \/ \E i \in Insts : CalculateHealthScore(t, i)
    \/ \E i \in Insts, v \in MetricValues : AddCustomMetric(t, i, "none_test", v)
    \/ \E e \in CtorFailures : Main(t, e)

LifeNext == \E t \in SeqThreads : LifeStep(t)
LifeSpec == Unconstructed /\ [][LifeNext]_vars

\* =================================================================== claims

\* A wrapped call of a function named n is in progress on logger i.
WrappedInFlight(i, n) ==
    \E t \in Threads :
        loc[t].op = "wrapped" /\ self[t] = i /\ FuncName(loc[t].func) = n
\* A log_types call with label l is in progress on logger i.
LogTypesInFlight(i, l) ==
    \E t \in Threads : loc[t].op = "log_types" /\ self[t] = i /\ loc[t].level = l
\* The wrapped calls of functions named n that have returned on logger i.
ReturnedNamed(i, n) ==
    LET c(f) == IF FuncName(f) = n THEN wReturned[i][f] ELSE 0
    IN c("test_function_all") + c("test_function_basic") + c("error_function")
       + c("calculate_fibonacci")
\* The number of timing entries recorded under name n on logger i.
TimingLen(i, n) ==
    IF Has(execution_times[i], n) THEN Len(Get(execution_times[i], n)) ELSE 0

\* C1: every wrapped call that has ended, by returning or by raising, has left
\* one timing entry under the function's name: with no call of that name in
\* progress, the entries number the calls that returned plus those that raised.
C1_TimingRecordedWhenBodyRaises ==
    \A i \in Insts, n \in FuncNames :
        ~WrappedInFlight(i, n) => TimingLen(i, n) = ReturnedNamed(i, n) + wRaised[i][n]

\* C2: the wrapper is transparent: a wrapped call that ended gave its caller
\* exactly what the body does for those arguments, the value it returns or the
\* exception it raises.
C2_WrapperTransparent ==
    \A t \in Threads :
        result[t].op = "wrapped" =>
            LET out == Body(result[t].func, result[t].args) IN
            /\ result[t].kind = out.kind
            /\ out.kind = "returned" => result[t].val = out.val
            /\ out.kind = "raised" => result[t].exc = out.exc

\* C2's case: one call returned the value of its argument and another call let
\* the body's ValueError through.
C2_Witness ==
    \E t, u \in Threads :
        /\ result[t].op = "wrapped" /\ result[t].kind = "returned"
        /\ result[t].func = "calculate_fibonacci" /\ result[t].val = "1"
        /\ result[u].op = "wrapped" /\ result[u].kind = "raised"
        /\ result[u].exc = "ValueError"

\* C3: no append is lost: with no wrapped call of a name in progress, the
\* timing sequence of that name holds exactly as many entries as wrapped calls
\* of that name have returned, however the threads interleaved.
C3_NoLostAppend ==
    \A i \in Insts, n \in FuncNames :
        ~WrappedInFlight(i, n) => TimingLen(i, n) = ReturnedNamed(i, n)

\* C3's case: two calls of one name were in progress together on two threads,
\* both have returned, and both entries are there.
C3_Witness ==
    \E t, u \in Threads :
        /\ t # u
        /\ result[t].op = "wrapped" /\ result[t].kind = "returned"
        /\ result[u].op = "wrapped" /\ result[u].kind = "returned"
        /\ FuncName(result[t].func) = FuncName(result[u].func)
        /\ result[t].overlapped
        /\ ~WrappedInFlight("A", FuncName(result[t].func))
        /\ TimingLen("A", FuncName(result[t].func)) = 2

\* C4: no increment is lost: with no log_types call of a label in progress,
\* the counter of that label equals the number of log_types calls made with
\* it, however the threads interleaved.
C4_NoLostIncrement ==
    \A i \in Insts, l \in InputLevels :
        ~LogTypesInFlight(i, l) => Count(error_count[i], l) = ltCalls[i][l]

\* C5: with one calling thread, between calls every label's counter equals the
\* number of log_types calls made with that label, and a label never used has
\* no entry in error_count.
C5_CountersMatchCalls ==
    (\A t \in SeqThreads : loc[t].op # "log_types") =>
        /\ \A l \in InputLevels : Count(error_count["A"], l) = ltCalls["A"][l]
        /\ \A j \in 1..Len(error_count["A"]) :
              /\ error_count["A"][j].k \in InputLevels
              /\ ltCalls["A"][error_count["A"][j].k] > 0
              /\ \A h \in 1..Len(error_count["A"]) :
                    error_count["A"][h].k = error_count["A"][j].k => h = j

\* C5's case: two INFO calls and one ERROR call have been made.
C5_Witness ==
    /\ \A t \in SeqThreads : pc[t] = "idle"
    /\ ltCalls["A"]["INFO"] = 2 /\ Count(error_count["A"], "INFO") = 2
    /\ ltCalls["A"]["ERROR"] = 1 /\ Count(error_count["A"], "ERROR") = 1
    /\ ~Has(error_count["A"], "INVALID_LEVEL")

\* C6: log_types never fails because of its label: every log_types call that
\* ended returned, an unknown label included, and it left error_count a
\* dictionary with one entry per label, which later calls go on using.
C6_LogTypesNeverRaises ==
    /\ \A t \in Threads : result[t].op = "log_types" => result[t].kind = "returned"
    /\ \A j, h \in 1..Len(error_count["A"]) :
          error_count["A"][h].k = error_count["A"][j].k => h = j

\* C6's case: a call with the unknown label was made first, and a later INFO
\* call has returned and is counted.
C6_Witness ==
    /\ Keys(error_count["A"]) = <<"INVALID_LEVEL", "INFO">>
    /\ Count(error_count["A"], "INVALID_LEVEL") = 1
    /\ result["t1"].op = "log_types" /\ result["t1"].level = "INFO"
    /\ result["t1"].kind = "returned"
    /\ Count(error_count["A"], "INFO") = 1

\* C7: constructing a logger with options the constructor does not recognise
\* succeeds: every construction attempted with such options gave a logger.
C7_UnknownOptionsIgnored ==
    \A i \in Insts :
        (ctorRes[i] # "none" /\ ~(ctorKw[i] \subseteq InitParams)) => ctorRes[i] = "ok"

\* C8: stop_monitoring is always safe: every stop_monitoring() call on a
\* constructed logger returned without an error.
C8_StopMonitoringSafe ==
    \A t \in Threads : result[t].op = "stop_monitoring" => result[t].kind = "returned"

\* C10: a logger is a scoped resource: every with statement over a constructed
\* logger entered its block and ran the teardown, and it ended as the block
\* did: normally, or with the exception the block raised.
C10_ScopedTeardown ==
    \A t \in Threads :
        result[t].op = "with" =>
            /\ result[t].entered /\ result[t].exited
            /\ result[t].block = "none" => result[t].kind = "returned"
            /\ result[t].block # "none" =>
                  result[t].kind = "raised" /\ result[t].exc = result[t].block

\* C11: the health score is clamped: every _calculate_health_score() call made
\* after any recording operations gave a score within 0..100.
C11_HealthScoreInRange ==
    \A t \in Threads :
        result[t].op = "_calculate_health_score" =>
            result[t].kind = "returned" /\ result[t].val \in 0..100

\* C12: the health score of a logger on which nothing was recorded (no log
\* calls, no timings, no failures) is 100.
C12_EmptyHealthScoreIs100 ==
    \A t \in Threads :
        (result[t].op = "_calculate_health_score" /\ result[t].fresh) =>
            result[t].kind = "returned" /\ result[t].val = 100

\* C13: a null metric value is recorded as absent: add_custom_metric(name, None)
\* returned without an error and left an entry for the metric.
C13_NullMetricAccepted ==
    \A t \in Threads :
        (result[t].op = "add_custom_metric" /\ result[t].value = "None") =>
            result[t].kind = "returned" /\ result[t].stored

\* C14: the wrapper keeps a failure count per function: with no wrapped call of
\* a name in progress, function_error_count of that name equals the number of
\* wrapped calls of that name that raised.
C14_FailuresCounted ==
    \A i \in Insts, n \in FuncNames :
        ~WrappedInFlight(i, n) => Count(function_error_count[i], n) = wRaised[i][n]

\* C15: a report sees the counters at one point in time: in every
\* draw_and_save_graph that ended, the list of labels and the list of counts
\* have the same length, while other threads call log_types.
C15_ConsistentSnapshot ==
    \A t \in Threads :
        result[t].op \in {"draw_and_save_graph", "view_insights"} =>
            Len(result[t].labels) = Len(result[t].counts)

\* C16: every counter is monotonic: no step makes error_count[L] smaller or
\* removes a label that is present.
C16_CountersMonotonic ==
    [][\A i \in Insts : \A j \in 1..Len(error_count[i]) :
          /\ Has(error_count'[i], error_count[i][j].k)
          /\ Count(error_count'[i], error_count[i][j].k) >= error_count[i][j].v]_vars

\* C17: the timings are append-only: a step leaves every timing list as it was
\* or with one entry more at its end; entries keep their values and order and
\* no name is dropped.
C17_TimingsAppendOnly ==
    [][\A i \in Insts : \A j \in 1..Len(execution_times[i]) :
          LET n == execution_times[i][j].k
              old == execution_times[i][j].v
          IN /\ Has(execution_times'[i], n)
             /\ Len(Get(execution_times'[i], n)) \in {Len(old), Len(old) + 1}
             /\ SubSeq(Get(execution_times'[i], n), 1, Len(old)) = old]_vars

\* C17's case: two calls of one name have returned with different durations,
\* and both entries are there in the order of the calls.
C17_Witness ==
    /\ \A t \in SeqThreads : pc[t] = "idle"
    /\ wReturned["A"]["test_function_all"] = 2
    /\ Has(execution_times["A"], "test_function")
    /\ Get(execution_times["A"], "test_function") = <<1000, 0>>

\* C18: the reports are read-only: no step of draw_and_save_graph,
\* generate_log_summary or view_insights changes error_count, execution_times
\* or function_error_count; the records they emit are not counted.
C18_ReportsReadOnly ==
    [][\A t \in Threads :
          (pc'[t] # pc[t] /\ (loc[t].op \in ReportOps \/ loc'[t].op \in ReportOps))
              => storeVars' = storeVars]_vars

\* C18's case: view_insights has returned on a logger that holds a counter and
\* a timing; it emitted its two records, and the counter is as the one
\* log_types call left it.
C18_Witness ==
    \E t \in SeqThreads :
        /\ result[t].op = "view_insights" /\ result[t].kind = "returned"
        /\ result[t].chart
        /\ result[t].labels = <<"INFO">> /\ result[t].counts = <<1>>
        /\ error_count["A"] = <<[k |-> "INFO", v |-> 1]>>
        /\ TimingLen("A", "test_function") = 1
        /\ emitted["A"].other = 3

\* C19: the reports do not fail on a fresh logger: generate_log_summary and
\* view_insights, called with no log call and no timing made, returned, gave a
\* total of 0, and view_insights drew no timing chart.
C19_ReportsOnFreshLogger ==
    \A t \in SeqThreads :
        (result[t].op \in ReportOps /\ result[t].fresh) =>
            /\ result[t].kind = "returned"
            /\ result[t].op \in {"generate_log_summary", "view_insights"} =>
                  result[t].total = 0
            /\ result[t].op = "view_insights" =>
                  ~result[t].chart /\ result[t].labels = <<>>

\* C19's case: view_insights has returned on the logger as constructed, having
\* saved the one chart of the (empty) counters.
C19_Witness ==
    \E t \in SeqThreads :
        /\ result[t].op = "view_insights" /\ result[t].fresh
        /\ result[t].kind = "returned" /\ result[t].total = 0
        /\ ~result[t].chart
        /\ error_count["A"] = <<>> /\ execution_times["A"] = <<>>
        /\ emitted["A"].other = 1

\* C20: instances own their state: a step of a log_types call or of a wrapped
\* call on one logger leaves every other logger's error_count,
\* execution_times, function_error_count and start_time as they were, also
\* when the loggers were constructed under the same name.
C20_InstancesIsolated ==
    [][\A t \in Threads :
          (pc'[t] # pc[t] \/ spinner'[t] # spinner[t]) =>
              \A j \in Insts \ {self'[t]} :
                  /\ error_count'[j] = error_count[j]
                  /\ execution_times'[j] = execution_times[j]
                  /\ function_error_count'[j] = function_error_count[j]
                  /\ start_time'[j] = start_time[j]]_vars

\* C20's case: two loggers constructed under one name at different times; a
\* log_types call was made on A only and a wrapped call on B only, and each
\* logger holds what was recorded on it and nothing else.
C20_Witness ==
    /\ Live("A") /\ Live("B")
    /\ loggerName["A"] = loggerName["B"]
    /\ start_time["A"] # start_time["B"]
    /\ \A t \in SeqThreads : pc[t] = "idle"
    /\ error_count["A"] = <<[k |-> "INFO", v |-> 1]>>
    /\ error_count["B"] = <<>>
    /\ execution_times["A"] = <<>>
    /\ TimingLen("B", "test_function") = 1

\* C29: timings are keyed by the function's name alone: between calls, the
\* list under "test_function" has one entry for every returned call of either
\* of the two functions of that name, the list of every other name one entry
\* per returned call of its function, and no other key exists.
C29_KeyedByNameOnly ==
    (\A t \in SeqThreads : loc[t].op # "wrapped") =>
        /\ TimingLen("A", "test_function") =
               wReturned["A"]["test_function_all"] + wReturned["A"]["test_function_basic"]
        /\ TimingLen("A", "calculate_fibonacci") = wReturned["A"]["calculate_fibonacci"]
        /\ TimingLen("A", "error_function") = wReturned["A"]["error_function"]
        /\ \A j \in 1..Len(execution_times["A"]) :
              execution_times["A"][j].k \in
                  {"test_function", "calculate_fibonacci", "error_function"}

\* C29's case: each of the two functions called test_function has returned
\* once, and the one list holds both entries.
C29_Witness ==
    /\ \A t \in SeqThreads : pc[t] = "idle"
    /\ wReturned["A"]["test_function_all"] = 1
    /\ wReturned["A"]["test_function_basic"] = 1
    /\ Keys(execution_times["A"]) = <<"test_function">>
    /\ TimingLen("A", "test_function") = 2

\* C21: start_time is fixed at construction: no step changes the start_time
\* of a constructed logger, and every generate_log_summary (called by the user
\* or by view_insights) reports that value as its start, whenever it is called.
C21_StartTimeFixed ==
    [][/\ \A i \in Insts : Live(i) => start_time'[i] = start_time[i]
       /\ \A t \in Threads :
             (pc[t] = "s_total" /\ pc'[t] = "idle"
                 /\ result'[t].op = "generate_log_summary")
                 => result'[t].started = start_time[self[t]]
       /\ \A t \in Threads :
             (pc[t] = "v_chart" /\ pc'[t] = "idle")
                 => result'[t].started = start_time[self[t]]]_vars

\* C21's case: a summary was generated after the clock had moved on and after
\* two other operations, and it reports the time of construction.
C21_Witness ==
    \E t \in SeqThreads :
        /\ result[t].op = "generate_log_summary" /\ result[t].kind = "returned"
        /\ ops = 3 /\ now = 1
        /\ error_count["A"] # <<>>
        /\ result[t].started = 0 /\ start_time["A"] = 0

\* C25: a wrapped call leaves the counters alone: no step of a call through a
\* log_function_time wrapper changes error_count, function_error_count or
\* start_time, and in execution_times it touches the list of its own
\* function's name only; the record it emits is not counted.
C25_WrapperLeavesCounters ==
    [][\A t \in Threads :
          (pc'[t] # pc[t] /\ (loc[t].op = "wrapped" \/ loc'[t].op = "wrapped")) =>
              /\ error_count' = error_count
              /\ function_error_count' = function_error_count
              /\ start_time' = start_time
              /\ \A i \in Insts : \A j \in 1..Len(execution_times[i]) :
                    (i # self'[t] \/ loc[t].op # "wrapped"
                        \/ execution_times[i][j].k # FuncName(loc[t].func))
                        => /\ j <= Len(execution_times'[i])
                           /\ execution_times'[i][j] = execution_times[i][j]]_vars

\* C25's case: a wrapped call has returned after one counted log_types call:
\* its timing and its record are there and the counter is still 1.
C25_Witness ==
    \E t \in Threads :
        /\ result[t].op = "wrapped" /\ result[t].kind = "returned"
        /\ \A u \in Threads : pc[u] = "idle"
        /\ error_count["A"] = <<[k |-> "INFO", v |-> 1]>>
        /\ emitted["A"].log_types = 1 /\ emitted["A"].other = 1
        /\ TimingLen("A", FuncName(result[t].func)) = 1

\* The log_types calls made on logger i, over every label.
CallsMade(i) == ltCalls[i]["INFO"] + ltCalls[i]["ERROR"] + ltCalls[i]["INVALID_LEVEL"]

SumKnown(d) ==
    SumSeq([j \in 1..Len(d) |-> IF d[j].k \in KnownLevels THEN d[j].v ELSE 0])

HandlersOfKind(name, kind) == {j \in 1..Len(handlers[name]) : handlers[name][j] = kind}

\* C26: handler setup is idempotent per name: however many loggers were
\* constructed under a name, with whatever save_log, the logger of that name
\* holds at most one console handler and at most one file handler.
C26_HandlersSetUpOnce ==
    \A n \in LoggerNames :
        /\ Cardinality(HandlersOfKind(n, "console")) <= 1
        /\ Cardinality(HandlersOfKind(n, "file")) <= 1

\* C26's case: two loggers were constructed under one name and the logger of
\* that name holds the handlers the first construction gave it.
C26_Witness ==
    /\ Live("A") /\ Live("B")
    /\ loggerName["A"] = loggerName["B"]
    /\ ~rootHandlers
    /\ handlers[loggerName["A"]] = <<"file", "console">>

\* C30: main() is fail-soft on initialisation: every run of main() in which
\* the constructor raised logged the failure and returned.
C30_MainFailSoft ==
    \A t \in Threads :
        (result[t].op = "main" /\ result[t].ctor # "ok") =>
            result[t].kind = "returned" /\ result[t].logged

\* C22: every spin thread ends once its call is over: when a thread is back
\* from a wrapped call, returned or raised, and the spin thread of that call
\* still loops, the spin thread reaches its end (or the thread has started
\* another call by then).
C22_SpinnerTerminates ==
    \A t \in Threads :
        (pc[t] = "idle" /\ spinner[t] \in {"check", "write"})
            ~> (spinner[t] = "done" \/ pc[t] # "idle")

\* C23: a spin thread is stopped by its own call only: the spin thread of a
\* call whose body is still running has not left its loop.
C23_SpinnerOwnedByCall ==
    \A t \in Threads : pc[t] = "w_body" => spinner[t] # "done"

\* C24: what is recorded is what was logged: for every wrapped call that
\* returned, the duration appended to execution_times is the one written in
\* the call's log line.
C24_RecordedIsLogged ==
    \A t \in Threads :
        (result[t].op = "wrapped" /\ result[t].kind = "returned") =>
            result[t].recorded = result[t].logged

====
